---- MODULE Spec2Model ----
(***************************************************************************)
(* Model of backend/core/cache.py: InMemoryCache, a process-local TTL      *)
(* cache kept as two parallel dicts, _cache (key -> value) and _expiry     *)
(* (key -> absolute expiry instant), read against the wall clock.          *)
(***************************************************************************)
EXTENDS Integers, FiniteSets, Sequences, TLC

\* ---------------------------------------------------------------- bounds
MaxTime == 2
MaxTTL == 2

Keys == {"k1", "k2"}
Values == {"v1", "v2"}
None == "None"
TTLs == (0 - 1)..MaxTTL

VARIABLES cache, expiry, now, last, ret, stats, lastSet, raised,
          life, req, thr

vars == <<cache, expiry, now, last, ret, stats, lastSet, raised,
          life, req, thr>>

\* state outside the cache object: the application lifespan, the request
\* handlers in flight, the threads inside get
appvars == <<life, req, thr>>

\* ------------------------------------------------------- dict primitives
\* d[k] = v
Put(d, k, v) == [x \in (DOMAIN d) \cup {k} |-> IF x = k THEN v ELSE d[x]]

\* del d[k]
Del(d, k) == [x \in (DOMAIN d) \ {k} |-> d[x]]

\* d[k] and del d[k] raise KeyError when k is not in d
KeyError(d, k) == k \notin DOMAIN d

\* {}
EmptyDict == [x \in {} |-> None]

\* ------------------------------------------------------ call bookkeeping
NoStats == [total_keys |-> 0, expired_keys |-> 0, active_keys |-> 0]

Call(op, key, path) == [op |-> op, key |-> key, path |-> path]

NoSet == [live |-> FALSE, value |-> None, ttl |-> 0, at |-> 0,
          over |-> 0 - 1, missed |-> FALSE]

\* ------------------------------------------------------------------- get
\* non-strict comparison
Expired_AtInstant(key) == now >= expiry[key]

\* datetime.now() > self._expiry[key]
Expired(key) == now > expiry[key]

\* get that takes an entry without an expiry record for an expired one
GetPath_NoRecordExpires(key) ==
    IF key \in DOMAIN cache
    THEN IF key \notin DOMAIN expiry \/ Expired(key) THEN "expired" ELSE "hit"
    ELSE "miss"

\* which return statement of get is reached
GetPath(key) ==
    IF key \in DOMAIN cache
    THEN IF key \in DOMAIN expiry /\ Expired(key) THEN "expired" ELSE "hit"
    ELSE "miss"

\* get that tells the caller the entry had expired
GetResult_Tagged(key) ==
    IF GetPath(key) = "hit" THEN cache[key]
    ELSE IF GetPath(key) = "expired" THEN "Expired" ELSE None

\* the value get returns
GetResult(key) == IF GetPath(key) = "hit" THEN cache[key] ELSE None

\* get that sweeps every expired entry once it meets one
CacheAfterGet_SweepAll(key) ==
    IF GetPath(key) = "expired"
    THEN [k \in {x \in DOMAIN cache :
                   ~(x \in DOMAIN expiry /\ now > expiry[x])} |-> cache[k]]
    ELSE cache

\* get that forgets "del self._cache[key]"
CacheAfterGet_NoEvict(key) == cache

CacheAfterGet(key) ==
    IF GetPath(key) = "expired" THEN Del(cache, key) ELSE cache

\* get that pushes the expiry of an entry back each time it is read
ExpiryAfterGet_Sliding(key) ==
    IF GetPath(key) = "expired" THEN Del(expiry, key)
    ELSE IF GetPath(key) = "hit" /\ key \in DOMAIN expiry
         THEN Put(expiry, key, expiry[key] + 1)
         ELSE expiry

\* get that forgets "del self._expiry[key]"
ExpiryAfterGet_KeepRecord(key) == expiry

ExpiryAfterGet(key) ==
    IF GetPath(key) = "expired" THEN Del(expiry, key) ELSE expiry

\* get raises when a del or the final read meets a missing key
GetRaises(key) ==
    CASE GetPath(key) = "expired" ->
             KeyError(cache, key) \/ KeyError(expiry, key)
      [] GetPath(key) = "hit" -> KeyError(cache, key)
      [] OTHER -> FALSE

Get(key) ==
    /\ cache' = CacheAfterGet(key)
    /\ raised' = IF GetRaises(key) THEN "KeyError" ELSE None
    /\ expiry' = ExpiryAfterGet(key)
    /\ ret' = GetResult(key)
    /\ last' = Call("get", key, GetPath(key))
    /\ stats' = NoStats
    /\ lastSet' = [lastSet EXCEPT ![key].missed =
                     @ \/ (/\ lastSet[key].live
                           /\ lastSet[key].ttl > 0
                           /\ now > lastSet[key].at + lastSet[key].ttl)]
    /\ UNCHANGED now

\* ------------------------------------------------------------------- set
CacheAfterSet(key, value) == Put(cache, key, value)

\* set that stores the duration instead of the instant
ExpiryAfterSet_Relative(key, expire_seconds) ==
    IF expire_seconds > 0
    THEN Put(expiry, key, expire_seconds)
    ELSE expiry

\* set that keeps an expiry the key already has
ExpiryAfterSet_KeepOld(key, expire_seconds) ==
    IF expire_seconds > 0 /\ key \notin DOMAIN expiry
    THEN Put(expiry, key, now + expire_seconds)
    ELSE expiry

ExpiryAfterSet(key, expire_seconds) ==
    IF expire_seconds > 0
    THEN Put(expiry, key, now + expire_seconds)
    ELSE expiry

Set(key, value, expire_seconds) ==
    /\ cache' = CacheAfterSet(key, value)
    /\ raised' = None
    /\ expiry' = ExpiryAfterSet(key, expire_seconds)
    /\ ret' = None
    /\ last' = Call("set", key, "-")
    /\ stats' = NoStats
    /\ lastSet' = [lastSet EXCEPT ![key] =
                     [live |-> TRUE, value |-> value,
                      ttl |-> IF expire_seconds > 0 THEN expire_seconds ELSE 0,
                      at |-> now,
                      over |-> IF /\ lastSet[key].live
                                  /\ lastSet[key].ttl > 0
                                  /\ now < lastSet[key].at + lastSet[key].ttl
                               THEN lastSet[key].at + lastSet[key].ttl
                               ELSE 0 - 1,
                      missed |-> FALSE]]
    /\ UNCHANGED now

\* ---------------------------------------------------------------- delete
CacheAfterDelete(key) ==
    IF key \in DOMAIN cache THEN Del(cache, key) ELSE cache

\* delete that leaves the expiry record behind
ExpiryAfterDelete_KeepRecord(key) == expiry

ExpiryAfterDelete(key) ==
    IF key \in DOMAIN expiry THEN Del(expiry, key) ELSE expiry

\* delete without the "if key in" guards
DeleteRaises_Unguarded(key) ==
    KeyError(cache, key) \/ KeyError(expiry, key)

DeleteRaises(key) ==
    \/ key \in DOMAIN cache /\ KeyError(cache, key)
    \/ key \in DOMAIN expiry /\ KeyError(expiry, key)

Delete(key) ==
    /\ cache' = CacheAfterDelete(key)
    /\ raised' = IF DeleteRaises(key) THEN "KeyError" ELSE None
    /\ expiry' = ExpiryAfterDelete(key)
    /\ ret' = None
    /\ last' = Call("delete", key,
                    IF key \in DOMAIN cache THEN "removed" ELSE "absent")
    /\ stats' = NoStats
    /\ lastSet' = [lastSet EXCEPT ![key] = NoSet]
    /\ UNCHANGED now

\* ----------------------------------------------------------------- clear
\* clear that forgets self._expiry.clear()
ExpiryAfterClear_Kept == expiry

ExpiryAfterClear == EmptyDict

\* the store effect of cache.clear(), called by who
ClearBy(who) ==
    /\ cache' = EmptyDict
    /\ expiry' = ExpiryAfterClear
    /\ ret' = None
    /\ raised' = None
    /\ last' = Call("clear", who,
                    IF DOMAIN cache # {} THEN "emptied" ELSE "empty")
    /\ stats' = NoStats
    /\ lastSet' = [k \in DOMAIN lastSet |-> NoSet]
    /\ UNCHANGED now

Clear == ClearBy("direct")

\* POST /api/cache/clear
clear_cache == ClearBy("clear_cache")

\* ------------------------------------------------------------- get_stats
\* counts the expiry records instead of the values
TotalKeys_OfExpiry == Cardinality(DOMAIN expiry)

TotalKeys == Cardinality(DOMAIN cache)

ExpiredKeys == Cardinality({key \in DOMAIN expiry : now > expiry[key]})

StatsResult ==
    [total_keys |-> TotalKeys,
     expired_keys |-> ExpiredKeys,
     active_keys |-> TotalKeys - ExpiredKeys]

\* get_stats that sweeps the expired entries it counted
GetStats_Sweep ==
    /\ stats' = StatsResult
    /\ ret' = None
    /\ raised' = None
    /\ last' = Call("get_stats", None, "-")
    /\ cache' = [k \in {x \in DOMAIN cache :
                          ~(x \in DOMAIN expiry /\ now > expiry[x])} |-> cache[k]]
    /\ expiry' = [k \in {x \in DOMAIN expiry : ~(now > expiry[x])} |-> expiry[k]]
    /\ UNCHANGED <<now, lastSet>>

GetStats ==
    /\ stats' = StatsResult
    /\ ret' = None
    /\ raised' = None
    /\ last' = Call("get_stats", None, "-")
    /\ UNCHANGED <<cache, expiry, now, lastSet>>

\* ----------------------------------------------------------------- clock
\* the wall clock read by datetime.now() moves on between calls
Tick ==
    /\ now < MaxTime
    /\ now' = now + 1
    /\ last' = Call("tick", None, "-")
    /\ ret' = None
    /\ stats' = NoStats
    /\ UNCHANGED <<cache, expiry, lastSet, raised>>

\* ---------------------------------------------------------- specification
InitCache ==
    /\ cache = EmptyDict
    /\ expiry = EmptyDict
    /\ now = 0
    /\ last = Call("init", None, "-")
    /\ ret = None
    /\ stats = NoStats
    /\ raised = None

Init ==
    /\ InitCache
    /\ lastSet = [k \in Keys |-> NoSet]
    /\ life = "off"
    /\ req = <<>>
    /\ thr = <<>>

Next ==
    \/ \E key \in Keys : Get(key) /\ UNCHANGED appvars
    \/ \E key \in Keys, value \in Values, expire_seconds \in TTLs :
          Set(key, value, expire_seconds) /\ UNCHANGED appvars
    \/ \E key \in Keys : Delete(key) /\ UNCHANGED appvars
    \/ Clear /\ UNCHANGED appvars
    \/ clear_cache /\ UNCHANGED appvars
    \/ GetStats /\ UNCHANGED appvars
    \/ Tick /\ UNCHANGED appvars

Spec == Init /\ [][Next]_vars

\* ------------------------------------------- get, statement by statement
\* Two threads inside InMemoryCache.get with no lock: every statement of
\* get is one step and the steps of the threads interleave freely.
Threads == {"t1", "t2"}

Thread(pc, key, exp, result, err) ==
    [pc |-> pc, key |-> key, exp |-> exp, ret |-> result, err |-> err]

At(t, pc) == thr[t].pc = pc

Goto(t, pc) == thr' = [thr EXCEPT ![t].pc = pc]

Raise(t) == thr' = [thr EXCEPT ![t].pc = "raised", ![t].err = "KeyError"]

Return(t, value) == thr' = [thr EXCEPT ![t].pc = "done", ![t].ret = value]

racevars == <<now, last, ret, stats, lastSet, raised, life, req>>

\* cache.get(key) is entered
ThreadCall(t, key) ==
    /\ At(t, "idle")
    /\ thr' = [thr EXCEPT ![t] = Thread("l19", key,
                   key \in DOMAIN cache /\ key \in DOMAIN expiry
                     /\ now > expiry[key],
                   None, None)]
    /\ UNCHANGED <<cache, expiry>>
    /\ UNCHANGED racevars

\* if key in self._cache:
Line19(t) ==
    /\ At(t, "l19")
    /\ Goto(t, IF thr[t].key \in DOMAIN cache THEN "l20" ELSE "l27")
    /\ UNCHANGED <<cache, expiry>>
    /\ UNCHANGED racevars

\* if key in self._expiry:
Line20(t) ==
    /\ At(t, "l20")
    /\ Goto(t, IF thr[t].key \in DOMAIN expiry THEN "l21" ELSE "l26")
    /\ UNCHANGED <<cache, expiry>>
    /\ UNCHANGED racevars

\* if datetime.now() > self._expiry[key]:
Line21(t) ==
    /\ At(t, "l21")
    /\ IF KeyError(expiry, thr[t].key)
       THEN Raise(t)
       ELSE Goto(t, IF now > expiry[thr[t].key] THEN "l23" ELSE "l26")
    /\ UNCHANGED <<cache, expiry>>
    /\ UNCHANGED racevars

\* del self._cache[key]
Line23(t) ==
    /\ At(t, "l23")
    /\ IF KeyError(cache, thr[t].key)
       THEN Raise(t) /\ UNCHANGED cache
       ELSE Goto(t, "l24") /\ cache' = Del(cache, thr[t].key)
    /\ UNCHANGED expiry
    /\ UNCHANGED racevars

\* del self._expiry[key]
Line24(t) ==
    /\ At(t, "l24")
    /\ IF KeyError(expiry, thr[t].key)
       THEN Raise(t) /\ UNCHANGED expiry
       ELSE Goto(t, "l25") /\ expiry' = Del(expiry, thr[t].key)
    /\ UNCHANGED cache
    /\ UNCHANGED racevars

\* return None
Line25(t) ==
    /\ At(t, "l25")
    /\ Return(t, None)
    /\ UNCHANGED <<cache, expiry>>
    /\ UNCHANGED racevars

\* return self._cache[key]
Line26(t) ==
    /\ At(t, "l26")
    /\ IF KeyError(cache, thr[t].key)
       THEN Raise(t)
       ELSE Return(t, cache[thr[t].key])
    /\ UNCHANGED <<cache, expiry>>
    /\ UNCHANGED racevars

\* return None
Line27(t) ==
    /\ At(t, "l27")
    /\ Return(t, None)
    /\ UNCHANGED <<cache, expiry>>
    /\ UNCHANGED racevars

\* the store holds entries written by set(k, v, 1) one second before their
\* expiry; the threads have not called get yet
InitRace ==
    /\ now \in 1..MaxTime
    /\ cache \in [Keys -> Values]
    /\ expiry \in [Keys -> 1..(now + 1)]
    /\ lastSet = [k \in Keys |->
                    [live |-> TRUE, value |-> cache[k], ttl |-> 1,
                     at |-> expiry[k] - 1, over |-> 0 - 1, missed |-> FALSE]]
    /\ last = Call("init", None, "-")
    /\ ret = None
    /\ stats = NoStats
    /\ raised = None
    /\ life = "off"
    /\ req = <<>>
    /\ thr = [t \in Threads |-> Thread("idle", None, FALSE, None, None)]

NextRace ==
    \/ \E t \in Threads, key \in Keys : ThreadCall(t, key)
    \/ \E t \in Threads : Line19(t)
    \/ \E t \in Threads : Line20(t)
    \/ \E t \in Threads : Line21(t)
    \/ \E t \in Threads : Line23(t)
    \/ \E t \in Threads : Line24(t)
    \/ \E t \in Threads : Line25(t)
    \/ \E t \in Threads : Line26(t)
    \/ \E t \in Threads : Line27(t)

SpecRace == InitRace /\ [][NextRace]_vars

\* ------------------------------------------------- application (main.py)
\* cache.set(cache_key, response, expire_seconds=...) in the two handlers
SearchTTL == 3600
AnalysisTTL == 86400

\* the instants at which the application is observed
AppTimes == {0, SearchTTL, SearchTTL + 1, AnalysisTTL + 1}

Tasks == {"h1", "h2"}

\* SearchRequest and NeighborhoodAnalysisRequest; radius_km and location as
\* the text their formatting gives
SearchRequests ==
    [kind : {"search"}, query : {"pizza"}, location : {"(40.7, -74.0)"},
     radius_km : {"2.0"}, limit : {1, 2}]

AnalysisRequests == [kind : {"analysis"}, name : {"soho"}, city : {"nyc"}]

Requests == SearchRequests \cup AnalysisRequests

NoRequest == [kind |-> "none"]

\* cache_key = f"search:{query}:{location}:{radius_km}" and
\* cache_key = f"analysis:{name}:{city}"
CacheKey(r) ==
    IF r.kind = "search"
    THEN "search:" \o r.query \o ":" \o r.location \o ":" \o r.radius_km
    ELSE "analysis:" \o r.name \o ":" \o r.city

AppKeys == {CacheKey(r) : r \in Requests}

\* the responses a successful computation can produce: a list of at most
\* limit places, possibly empty, or an analysis object
Responses(r) ==
    IF r.kind = "search"
    THEN IF r.limit >= 2 THEN {"[]", "[p1]", "[p1, p2]"} ELSE {"[]", "[p1]"}
    ELSE {"analysis(" \o r.name \o ", " \o r.city \o ")"}

\* "if cached:"
Truthy(v) == v \notin {None, "[]"}

\* every handler caches with the default of set
HandlerTTL_Default(r) == SearchTTL

HandlerTTL(r) == IF r.kind = "search" THEN SearchTTL ELSE AnalysisTTL

Handler(pc, r, response, calls) ==
    [pc |-> pc, request |-> r, response |-> response, calls |-> calls]

IdleHandler == Handler("idle", NoRequest, None, <<>>)

CacheCall(op, key, value, ttl) ==
    [op |-> op, key |-> key, value |-> value, ttl |-> ttl]

\* the handler up to its first await: build the key, cache.get, return the
\* cached response when it is truthy
HandlerLookup(h, r) ==
    /\ life = "serving"
    /\ req[h].pc = "idle"
    /\ Get(CacheKey(r))
    /\ req' = [req EXCEPT ![h] =
                 Handler(IF Truthy(GetResult(CacheKey(r)))
                         THEN "returned" ELSE "awaiting",
                         r,
                         IF Truthy(GetResult(CacheKey(r)))
                         THEN GetResult(CacheKey(r)) ELSE None,
                         <<CacheCall("get", CacheKey(r), None, 0)>>)]
    /\ UNCHANGED <<life, thr>>

\* the upstream calls succeed: build the response, cache.set, return
HandlerStore(h, response) ==
    /\ life = "serving"
    /\ req[h].pc = "awaiting"
    /\ response \in Responses(req[h].request)
    /\ Set(CacheKey(req[h].request), response, HandlerTTL(req[h].request))
    /\ req' = [req EXCEPT ![h].pc = "returned",
                          ![h].response = response,
                          ![h].calls = Append(@,
                              CacheCall("set", CacheKey(req[h].request),
                                        response,
                                        HandlerTTL(req[h].request)))]
    /\ UNCHANGED <<life, thr>>

\* a handler that caches an empty result before it raises
HandlerRaise_Caches(h) ==
    /\ life = "serving"
    /\ req[h].pc = "awaiting"
    /\ Set(CacheKey(req[h].request), "[]", HandlerTTL(req[h].request))
    /\ req' = [req EXCEPT ![h].pc = "raised"]
    /\ UNCHANGED <<life, thr>>

\* an upstream call raises, or the 404 paths: HTTPException, no cache.set
HandlerRaise(h) ==
    /\ life = "serving"
    /\ req[h].pc = "awaiting"
    /\ req' = [req EXCEPT ![h].pc = "raised"]
    /\ UNCHANGED <<cache, expiry, now, last, ret, stats, lastSet, raised>>
    /\ UNCHANGED <<life, thr>>

\* the response or the error has been sent
HandlerDone(h) ==
    /\ life = "serving"
    /\ req[h].pc \in {"returned", "raised"}
    /\ req' = [req EXCEPT ![h] = IdleHandler]
    /\ UNCHANGED <<cache, expiry, now, last, ret, stats, lastSet, raised>>
    /\ UNCHANGED <<life, thr>>

\* GET /api/cache/stats
cache_stats ==
    /\ life = "serving"
    /\ GetStats
    /\ UNCHANGED appvars

\* POST /api/cache/clear while serving
AdminClear ==
    /\ life = "serving"
    /\ clear_cache
    /\ UNCHANGED appvars

\* lifespan: the services are constructed and the generator yields
LifespanStartup ==
    /\ life = "off"
    /\ life' = "serving"
    /\ UNCHANGED <<cache, expiry, now, last, ret, stats, lastSet, raised>>
    /\ UNCHANGED <<req, thr>>

\* lifespan: a service constructor raises; "raise" leaves the generator
\* before its yield
LifespanStartupRaise ==
    /\ life = "off"
    /\ life' = "failed"
    /\ UNCHANGED <<cache, expiry, now, last, ret, stats, lastSet, raised>>
    /\ UNCHANGED <<req, thr>>

\* lifespan: the generator is resumed after the yield and runs cache.clear()
LifespanShutdown ==
    /\ life = "serving"
    /\ life' = "stopped"
    /\ ClearBy("lifespan")
    /\ UNCHANGED <<req, thr>>

\* lifespan: an exception is thrown into the generator at its yield; there
\* is no try/finally around it, so the rest of the body is skipped
LifespanThrow ==
    /\ life = "serving"
    /\ life' = "aborted"
    /\ UNCHANGED <<cache, expiry, now, last, ret, stats, lastSet, raised>>
    /\ UNCHANGED <<req, thr>>

\* the wall clock moves on to a later instant
AppTick ==
    /\ life = "serving"
    /\ \E t \in AppTimes : t > now /\ now' = t
    /\ last' = Call("tick", None, "-")
    /\ ret' = None
    /\ stats' = NoStats
    /\ UNCHANGED <<cache, expiry, lastSet, raised>>
    /\ UNCHANGED appvars

InitApp ==
    /\ InitCache
    /\ lastSet = [k \in AppKeys |-> NoSet]
    /\ life = "off"
    /\ req = [h \in Tasks |-> IdleHandler]
    /\ thr = <<>>

NextApp ==
    \/ LifespanStartup
    \/ LifespanStartupRaise
    \/ LifespanShutdown
    \/ LifespanThrow
    \/ \E h \in Tasks, r \in Requests : HandlerLookup(h, r)
    \/ \E h \in Tasks, response \in UNION {Responses(r) : r \in Requests} :
          HandlerStore(h, response)
    \/ \E h \in Tasks : HandlerRaise(h)
    \/ \E h \in Tasks : HandlerDone(h)
    \/ cache_stats
    \/ AdminClear
    \/ AppTick

SpecApp == InitApp /\ [][NextApp]_vars

\* ================================================================ claims
IsGet(c, k) == c.op = "get" /\ c.key = k
IsSet(c, k) == c.op = "set" /\ c.key = k
IsStats(c) == c.op = "get_stats"

\* C1: a set on a key that is already stored replaces the whole entry: the
\* value is the new one and the expiry is exactly now + ttl when ttl > 0 and
\* absent when ttl <= 0.
C1_SetFullyReplaces ==
    [][\A k \in Keys :
         (IsSet(last', k) /\ k \in DOMAIN cache) =>
            /\ k \in DOMAIN cache'
            /\ cache'[k] = lastSet'[k].value
            /\ IF lastSet'[k].ttl > 0
               THEN k \in DOMAIN expiry' /\ expiry'[k] = now' + lastSet'[k].ttl
               ELSE k \notin DOMAIN expiry']_vars

\* C2: while the last write to k is a set with ttl <= 0 (no delete, clear or
\* later set), every get(k) returns the value of that set, at any time.
C2_NonPositiveTtlNeverExpires ==
    \A k \in Keys :
        (IsGet(last, k) /\ lastSet[k].live /\ lastSet[k].ttl <= 0) =>
            ret = lastSet[k].value

\* C3: a get(k) issued right after set(k, v, ttl) with ttl > 0, with no
\* clock advance and no call in between, returns v.
C3_SetGetRoundTrip ==
    [][\A k \in Keys :
         (IsSet(last, k) /\ lastSet[k].ttl > 0 /\ IsGet(last', k)) =>
            ret' = lastSet[k].value]_vars

C3_Witness ==
    \E k \in Keys :
        /\ IsGet(last, k) /\ last.path = "hit"
        /\ lastSet[k].live /\ lastSet[k].ttl > 0 /\ lastSet[k].at = now
        /\ now > 0
        /\ ret = lastSet[k].value

\* C4: a get on an entry whose expiry is strictly before the current time
\* returns None and removes both the value and the expiry record.
C4_ExpiredGetEvicts ==
    [][\A k \in Keys :
         (/\ IsGet(last', k)
          /\ k \in DOMAIN cache /\ k \in DOMAIN expiry
          /\ expiry[k] < now) =>
            /\ ret' = None
            /\ k \notin DOMAIN cache'
            /\ k \notin DOMAIN expiry']_vars

C4_Witness ==
    \E k \in Keys :
        /\ IsGet(last, k) /\ last.path = "expired"
        /\ ret = None
        /\ k \notin DOMAIN cache /\ k \notin DOMAIN expiry

\* C5: after set(k, v, ttl) with ttl > 0 at time t and no other write to k,
\* a get(k) before t + ttl returns v, a get(k) after t + ttl returns None,
\* and a get_stats after such a late get does not count k in total_keys.
C5_ExpiryBoundary ==
    \A k \in Keys :
        (lastSet[k].live /\ lastSet[k].ttl > 0) =>
            /\ (IsGet(last, k) /\ now < lastSet[k].at + lastSet[k].ttl) =>
                   ret = lastSet[k].value
            /\ (IsGet(last, k) /\ now > lastSet[k].at + lastSet[k].ttl) =>
                   ret = None
            /\ (IsStats(last) /\ lastSet[k].missed) =>
                   /\ k \notin DOMAIN cache
                   /\ stats.total_keys = Cardinality((DOMAIN cache) \ {k})

C5_Witness ==
    \E k \in Keys :
        /\ IsStats(last)
        /\ lastSet[k].live /\ lastSet[k].ttl > 0 /\ lastSet[k].missed
        /\ now > lastSet[k].at + lastSet[k].ttl
        /\ stats.total_keys = 1

\* C6: at the exact expiry instant (now = expires_at) a get still returns
\* the value and evicts nothing, and get_stats does not count the key as
\* expired.
C6_StrictComparison ==
    [][\A k \in Keys :
         (k \in DOMAIN cache /\ k \in DOMAIN expiry /\ now = expiry[k]) =>
            /\ IsGet(last', k) =>
                   /\ ret' = cache[k]
                   /\ cache' = cache
                   /\ expiry' = expiry
            /\ IsStats(last') =>
                   stats'.expired_keys =
                       Cardinality({j \in (DOMAIN expiry) \ {k} :
                                       expiry[j] < now})]_vars

C6_Witness ==
    \E k \in Keys :
        /\ IsGet(last, k) /\ last.path = "hit"
        /\ k \in DOMAIN cache /\ k \in DOMAIN expiry
        /\ expiry[k] = now
        /\ ret = cache[k]

\* C7: a set(k, v2, ttl2) with ttl2 > 0 at time t2 that overwrites an entry
\* still short of its own expiry makes get(k) return v2 up to t2 + ttl2 and
\* None after it, whatever the overwritten entry's expiry was.
C7_OverwriteResetsExpiry ==
    \A k \in Keys :
        (/\ IsGet(last, k)
         /\ lastSet[k].live /\ lastSet[k].ttl > 0
         /\ lastSet[k].over >= 0) =>
            /\ now <= lastSet[k].at + lastSet[k].ttl => ret = lastSet[k].value
            /\ now > lastSet[k].at + lastSet[k].ttl => ret = None

C7_Witness ==
    \E k \in Keys :
        /\ IsGet(last, k) /\ last.path = "hit"
        /\ lastSet[k].live /\ lastSet[k].ttl > 0
        /\ lastSet[k].over >= 0 /\ now > lastSet[k].over
        /\ now <= lastSet[k].at + lastSet[k].ttl
        /\ ret = lastSet[k].value

\* C8: get_stats changes no value and no expiry record, evicting nothing,
\* and a second get_stats right after the first returns the same numbers.
C8_GetStatsReadOnly ==
    [][/\ IsStats(last') => (cache' = cache /\ expiry' = expiry)
       /\ (IsStats(last) /\ IsStats(last')) => stats' = stats]_vars

C8_Witness ==
    /\ IsStats(last)
    /\ stats.expired_keys >= 1
    /\ \E k \in DOMAIN cache : k \in DOMAIN expiry /\ expiry[k] < now

\* entries without an expiry record, entries past their expiry, entries
\* with an expiry still ahead
NeverExpiring == {k \in DOMAIN cache : k \notin DOMAIN expiry}
ExpiredStored == {k \in DOMAIN cache : k \in DOMAIN expiry /\ expiry[k] < now}
PendingStored == {k \in DOMAIN cache : k \in DOMAIN expiry /\ expiry[k] >= now}

\* C9: total_keys is the number of entries physically stored, expired but
\* not yet evicted ones included: never-expiring + expired + pending.
C9_TotalKeysCountsStored ==
    IsStats(last) =>
        /\ stats.total_keys = Cardinality(DOMAIN cache)
        /\ stats.total_keys = Cardinality(NeverExpiring)
                              + Cardinality(ExpiredStored)
                              + Cardinality(PendingStored)

C9_Witness ==
    /\ IsStats(last)
    /\ Cardinality(NeverExpiring) >= 1
    /\ Cardinality(ExpiredStored) >= 1
    /\ stats.total_keys = 2

\* C10: expired_keys is the number of stored entries whose expiry is
\* strictly before now, and active_keys = total_keys - expired_keys is the
\* number of stored entries a get at that instant would return.
C10_ExpiredAndActive ==
    IsStats(last) =>
        /\ stats.expired_keys = Cardinality(ExpiredStored)
        /\ stats.active_keys = stats.total_keys - stats.expired_keys
        /\ stats.active_keys =
               Cardinality({k \in DOMAIN cache : GetResult(k) # None})

C10_Witness ==
    /\ IsStats(last)
    /\ stats.expired_keys >= 1
    /\ stats.active_keys >= 1

IsDelete(c, k) == c.op = "delete" /\ c.key = k
IsClear(c) == c.op = "clear"
StoredExpired(k) == k \in DOMAIN cache /\ k \in DOMAIN expiry /\ expiry[k] < now

\* C11: delete(k) on a stored key, expired or not, removes its value and its
\* expiry record and a get(k) right after returns None; delete(k) on an
\* absent key raises nothing and leaves the store as it was.
C11_Delete ==
    [][\A k \in Keys :
         /\ IsDelete(last', k) =>
               /\ raised' = None
               /\ IF k \in DOMAIN cache
                  THEN k \notin DOMAIN cache' /\ k \notin DOMAIN expiry'
                  ELSE cache' = cache /\ expiry' = expiry
         /\ (IsDelete(last, k) /\ IsGet(last', k)) =>
               ret' = None /\ cache' = cache /\ expiry' = expiry]_vars

C11_Witness ==
    \E k \in Keys :
        /\ IsDelete(last, k) /\ last.path = "removed"
        /\ k \notin DOMAIN cache /\ k \notin DOMAIN expiry
        /\ raised = None
        /\ DOMAIN cache # {}

\* C12: right after clear(), called directly or by the clear_cache endpoint,
\* no value and no expiry record is left, get_stats returns three zeros and
\* get returns None for every key.
C12_Clear ==
    /\ [](IsClear(last) =>
             /\ cache = EmptyDict
             /\ expiry = EmptyDict
             /\ StatsResult = NoStats
             /\ \A k \in DOMAIN lastSet : GetResult(k) = None)
    /\ [][IsClear(last) =>
             /\ IsStats(last') => stats' = NoStats
             /\ \A k \in DOMAIN lastSet : IsGet(last', k) => ret' = None]_vars

C12_Witness ==
    /\ IsClear(last)
    /\ last.key = "clear_cache"
    /\ last.path = "emptied"
    /\ cache = EmptyDict /\ expiry = EmptyDict

\* C13: an entry without an expiry record stays stored with the same value
\* over every step that is not delete or set on its key, or clear.
C13_NoExpiryPersists ==
    [][\A k \in Keys :
         (/\ k \in DOMAIN cache /\ k \notin DOMAIN expiry
          /\ ~IsDelete(last', k) /\ ~IsSet(last', k) /\ ~IsClear(last')) =>
            /\ k \in DOMAIN cache'
            /\ cache'[k] = cache[k]
            /\ k \notin DOMAIN expiry']_vars

C13_Witness ==
    \E k \in Keys :
        /\ IsGet(last, k) /\ last.path = "hit"
        /\ k \in DOMAIN cache /\ k \notin DOMAIN expiry
        /\ lastSet[k].live /\ lastSet[k].at = 0
        /\ now = MaxTime
        /\ ret = cache[k]

\* C14: no call of get, set, delete, clear or get_stats raises, in any
\* reachable state and for any key.
C14_Total == raised = None

C14_Witness ==
    \E k \in Keys :
        /\ IsGet(last, k) /\ last.path = "expired"
        /\ raised = None
        /\ \E j \in Keys : j # k /\ j \notin DOMAIN cache

\* C15: a get on a key that was never set, was deleted or cleared, or whose
\* ttl has run out returns the same None.
C15_MissIsNone ==
    \A k \in Keys :
        (/\ IsGet(last, k)
         /\ \/ ~lastSet[k].live
            \/ lastSet[k].ttl > 0 /\ now > lastSet[k].at + lastSet[k].ttl) =>
            ret = None

C15_Witness ==
    \E k \in Keys :
        /\ IsGet(last, k)
        /\ lastSet[k].live /\ lastSet[k].ttl > 0
        /\ now > lastSet[k].at + lastSet[k].ttl
        /\ ret = None
        /\ \E j \in Keys : j # k /\ ~lastSet[j].live /\ GetResult(j) = ret

\* C17: a key becomes stored only by a set on it; a stored key leaves only
\* by delete on it, clear, or a get on it that finds it expired; get never
\* returns the value of an entry whose expiry is past; a get, delete or
\* clear touching an expired entry removes it.
C17_Lifecycle ==
    [][\A k \in Keys :
         /\ (k \notin DOMAIN cache /\ k \in DOMAIN cache') => IsSet(last', k)
         /\ (k \in DOMAIN cache /\ k \notin DOMAIN cache') =>
               \/ IsDelete(last', k)
               \/ IsClear(last')
               \/ IsGet(last', k) /\ StoredExpired(k)
         /\ (IsGet(last', k) /\ StoredExpired(k)) => ret' = None
         /\ (/\ StoredExpired(k)
             /\ IsGet(last', k) \/ IsDelete(last', k) \/ IsClear(last')) =>
               k \notin DOMAIN cache' /\ k \notin DOMAIN expiry']_vars

C17_Witness ==
    \E k \in Keys :
        /\ IsDelete(last, k) /\ last.path = "removed"
        /\ lastSet[k] = NoSet
        /\ k \notin DOMAIN cache
        /\ \E j \in Keys : StoredExpired(j)

\* C18: get, set and delete on a key k leave the value and the expiry
\* record of every other key as they were.
C18_SingleKey ==
    [][\A k \in Keys : \A j \in Keys \ {k} :
         (IsGet(last', k) \/ IsSet(last', k) \/ IsDelete(last', k)) =>
            /\ (j \in DOMAIN cache') = (j \in DOMAIN cache)
            /\ (j \in DOMAIN expiry') = (j \in DOMAIN expiry)
            /\ j \in DOMAIN cache => cache'[j] = cache[j]
            /\ j \in DOMAIN expiry => expiry'[j] = expiry[j]]_vars

C18_Witness ==
    \E k \in Keys :
        /\ IsGet(last, k) /\ last.path = "expired"
        /\ k \notin DOMAIN cache
        /\ \E j \in Keys : j # k /\ StoredExpired(j)

\* C19: when two threads have both called get(k) on a stored, expired key
\* and both calls are over, neither raised, both returned None and k has
\* neither a value nor an expiry record.
C19_RacingGets ==
    \A k \in Keys :
        (\A t \in Threads :
            /\ thr[t].key = k /\ thr[t].exp
            /\ thr[t].pc \in {"done", "raised"}) =>
            /\ \A t \in Threads :
                  thr[t].pc = "done" /\ thr[t].err = None /\ thr[t].ret = None
            /\ k \notin DOMAIN cache
            /\ k \notin DOMAIN expiry

\* C16: however the lifespan ends (shutdown after a successful startup, a
\* startup that raised, an exception thrown in at the yield), cache.clear()
\* has run as its last act and the store is empty.
C16_ShutdownClears ==
    life \in {"stopped", "failed", "aborted"} =>
        /\ IsClear(last) /\ last.key = "lifespan"
        /\ cache = EmptyDict
        /\ expiry = EmptyDict

\* C20: a handler has called cache.get on its request's key, and nothing
\* else, when it starts waiting for upstream work; when it returns a
\* computed response it has called get and then set exactly once, with the
\* response and a TTL of 3600 (search) or 86400 (analysis).
C20_ReadThrough ==
    \A h \in Tasks :
        LET q == req[h]
            key == CacheKey(q.request)
        IN  /\ q.pc \in {"awaiting", "raised"} =>
                   q.calls = <<CacheCall("get", key, None, 0)>>
            /\ (q.pc = "returned" /\ Len(q.calls) # 1) =>
                   /\ q.calls =
                        <<CacheCall("get", key, None, 0),
                          CacheCall("set", key, q.response,
                                    IF q.request.kind = "search"
                                    THEN 3600 ELSE 86400)>>
                   /\ q.response \in Responses(q.request)
            /\ (q.pc = "returned" /\ IsSet(last, key)
                  /\ lastSet[key].value = q.response
                  /\ lastSet[key].at = now /\ Len(q.calls) = 2) =>
                   /\ cache[key] = q.response
                   /\ expiry[key] = now + (IF q.request.kind = "search"
                                           THEN 3600 ELSE 86400)

C20_Witness ==
    \E h \in Tasks :
        /\ req[h].pc = "returned"
        /\ req[h].request.kind = "analysis"
        /\ Len(req[h].calls) = 2
        /\ req[h].calls[2].ttl = 86400
        /\ IsSet(last, CacheKey(req[h].request))
        /\ now > 0
        /\ expiry[CacheKey(req[h].request)] = now + 86400

\* C22: every key with an expiry record has a stored value, so get_stats
\* never reports more expired keys than keys, nor a negative active_keys.
C22_ExpirySubsetOfCache ==
    /\ DOMAIN expiry \subseteq DOMAIN cache
    /\ IsStats(last) =>
          /\ stats.expired_keys <= stats.total_keys
          /\ stats.active_keys >= 0

C22_Witness ==
    /\ IsStats(last)
    /\ stats.total_keys = 1
    /\ stats.expired_keys = 1
    /\ stats.active_keys = 0
    /\ \E k \in Keys : ~lastSet[k].live /\ k \notin DOMAIN expiry

\* C25: a get on a stored entry that is not expired changes neither dict:
\* nothing is removed and the entry's expiry stays where it was.
C25_HitChangesNothing ==
    [][\A k \in Keys :
         (/\ IsGet(last', k)
          /\ k \in DOMAIN cache
          /\ k \in DOMAIN expiry => now <= expiry[k]) =>
            /\ cache' = cache
            /\ expiry' = expiry
            /\ ret' = cache[k]]_vars

C25_Witness ==
    \E k \in Keys :
        /\ IsGet(last, k) /\ last.path = "hit"
        /\ lastSet[k].live /\ lastSet[k].ttl > 0
        /\ now > lastSet[k].at
        /\ k \in DOMAIN expiry
        /\ expiry[k] = lastSet[k].at + lastSet[k].ttl

\* C27: a second delete(k), a second clear(), or a second get(k) on a key
\* whose first get found it expired, with no clock change in between,
\* leaves the store as the first call left it, returns what the first call
\* returned and raises nothing.
C27_Idempotent ==
    [][/\ \A k \in Keys :
            (IsDelete(last, k) /\ IsDelete(last', k)) =>
               /\ cache' = cache /\ expiry' = expiry
               /\ ret' = ret /\ raised' = None
       /\ (IsClear(last) /\ IsClear(last')) =>
               /\ cache' = cache /\ expiry' = expiry
               /\ ret' = ret /\ raised' = None
       /\ \A k \in Keys :
            (IsGet(last, k) /\ last.path = "expired" /\ IsGet(last', k)) =>
               /\ cache' = cache /\ expiry' = expiry
               /\ ret' = ret /\ raised' = None]_vars

C27_Witness ==
    \E k \in Keys :
        /\ IsGet(last, k) /\ last.path = "miss"
        /\ lastSet[k].live /\ lastSet[k].missed
        /\ ret = None /\ raised = None
        /\ DOMAIN cache # {}

\* C28: set adds one to the number of stored keys when its key is not
\* stored and nothing when it is; get and delete take away one or nothing;
\* get_stats reports that number, and every stored key is one that was set
\* and not deleted or cleared since.
C28_TotalKeysDelta ==
    /\ [][\A k \in Keys :
            /\ IsSet(last', k) =>
                  Cardinality(DOMAIN cache') - Cardinality(DOMAIN cache)
                     = IF k \in DOMAIN cache THEN 0 ELSE 1
            /\ (IsGet(last', k) \/ IsDelete(last', k)) =>
                  Cardinality(DOMAIN cache') - Cardinality(DOMAIN cache)
                     \in {0, 0 - 1}
            /\ IsStats(last') =>
                  stats'.total_keys = Cardinality(DOMAIN cache)]_vars
    /\ [](\A k \in DOMAIN cache : lastSet[k].live)

C28_Witness ==
    \E k \in Keys :
        /\ IsSet(last, k)
        /\ lastSet[k].over >= 0
        /\ Cardinality(DOMAIN cache) = 2

\* C29: with the clock never going back, a stored entry that is expired
\* stays unreadable over every step that is not a set on its key: it is
\* either still stored and expired or gone, and a get on it returns None.
C29_ExpiredStaysExpired ==
    [][\A k \in Keys :
         (StoredExpired(k) /\ now' >= now /\ ~IsSet(last', k)) =>
            /\ \/ k \notin DOMAIN cache'
               \/ /\ k \in DOMAIN expiry'
                  /\ expiry'[k] < now'
            /\ IsGet(last', k) => ret' = None
            /\ IsStats(last') =>
                  stats'.active_keys <=
                     Cardinality({j \in DOMAIN cache : ~StoredExpired(j)})]_vars

C29_Witness ==
    \E k \in Keys : \E j \in Keys \ {k} :
        /\ IsGet(last, j) /\ last.path = "hit"
        /\ StoredExpired(k)
        /\ lastSet[k].live /\ ~lastSet[k].missed
        /\ GetResult(k) = None

\* C21: requests that differ in a parameter the response depends on (query,
\* location, radius_km, limit; name, city) have different cache keys, so a
\* handler that returned on a cache hit returned a response computed for
\* its own parameters.
C21_KeyIdentifiesRequest ==
    \A h \in Tasks :
        /\ \A g \in Tasks :
              (/\ req[h].pc # "idle" /\ req[g].pc # "idle"
               /\ req[h].request # req[g].request) =>
                  CacheKey(req[h].request) # CacheKey(req[g].request)
        /\ (req[h].pc = "returned" /\ Len(req[h].calls) = 1) =>
              req[h].response \in Responses(req[h].request)

\* C23: a request whose key holds a response cached less than its TTL ago
\* is answered from the cache: the handler returns the stored value at once,
\* whatever that value is, and the store is left as it was.
C23_RepeatServedFromCache ==
    [][\A h \in Tasks :
         LET key == CacheKey(req'[h].request)
         IN  (/\ req[h].pc = "idle" /\ req'[h].pc # "idle"
              /\ key \in DOMAIN cache /\ key \in DOMAIN expiry
              /\ now < expiry[key]) =>
                 /\ req'[h].pc = "returned"
                 /\ req'[h].response = cache[key]
                 /\ req'[h].calls = <<CacheCall("get", key, None, 0)>>
                 /\ cache' = cache /\ expiry' = expiry]_vars

\* C24: a handler that ends by raising has made no cache.set: its only cache
\* call is the get, the raising step leaves the store alone, and the miss
\* before it changed nothing but, at most, its own expired key.
C24_FailureNeverCaches ==
    /\ [](\A h \in Tasks :
            req[h].pc = "raised" =>
                req[h].calls =
                    <<CacheCall("get", CacheKey(req[h].request), None, 0)>>)
    /\ [][\A h \in Tasks :
            LET key == CacheKey(req'[h].request)
            IN  /\ (req[h].pc = "awaiting" /\ req'[h].pc = "raised") =>
                       cache' = cache /\ expiry' = expiry
                /\ (req[h].pc = "idle" /\ req'[h].pc = "awaiting") =>
                       /\ DOMAIN cache' \subseteq DOMAIN cache
                       /\ DOMAIN expiry' \subseteq DOMAIN expiry
                       /\ \A k \in DOMAIN cache \ {key} :
                              k \in DOMAIN cache' /\ cache'[k] = cache[k]
                       /\ \A k \in DOMAIN expiry \ {key} :
                              k \in DOMAIN expiry' /\ expiry'[k] = expiry[k]
                       /\ key \in DOMAIN cache =>
                              \/ key \in DOMAIN cache'
                                   /\ cache'[key] = cache[key]
                                   /\ expiry'[key] = expiry[key]
                              \/ key \notin DOMAIN cache'
                                   /\ key \notin DOMAIN expiry'
                                   /\ now > expiry[key]]_vars

C24_Witness ==
    \E h \in Tasks : \E g \in Tasks \ {h} :
        /\ req[h].pc = "raised"
        /\ req[g].pc = "returned" /\ Len(req[g].calls) = 2
        /\ CacheKey(req[g].request) \in DOMAIN cache
        /\ CacheKey(req[h].request) \notin DOMAIN cache

\* C26: with handlers interleaving only at their awaits, an entry's value
\* and its expiry are always those of the most recent set on its key, even
\* when two requests missed on the key and both stored.
C26_ValueAndExpiryFromOneSet ==
    \A key \in DOMAIN cache :
        /\ lastSet[key].live
        /\ cache[key] = lastSet[key].value
        /\ key \in DOMAIN expiry
        /\ expiry[key] = lastSet[key].at + lastSet[key].ttl

C26_Witness ==
    \E h \in Tasks : \E g \in Tasks \ {h} :
        /\ req[h].pc = "returned" /\ Len(req[h].calls) = 2
        /\ req[g].pc = "returned" /\ Len(req[g].calls) = 2
        /\ CacheKey(req[h].request) = CacheKey(req[g].request)
        /\ req[h].response # req[g].response
        /\ now > 0
        /\ IsSet(last, CacheKey(req[g].request))
        /\ cache[CacheKey(req[g].request)] = req[g].response
        /\ lastSet[CacheKey(req[g].request)].at = now
        /\ expiry[CacheKey(req[g].request)] = now + SearchTTL

====
